---- MODULE Spec2Model ----
(***************************************************************************)
(* Model of src/bin/sync-with-n26.rs: the `main` pipeline that syncs N26   *)
(* bank transactions into a YNAB ledger, and its `convert_transaction`     *)
(* closure.  One action per statement of `main` that can fail or that      *)
(* calls a collaborator.  The collaborators of the ynab_sync library       *)
(* (ynab.sync, the two get_transactions) are not part of the binary's      *)
(* source; they are modelled from the design document and marked so.       *)
(***************************************************************************)
EXTENDS Integers, Sequences, FiniteSets, TLC

(***************************************************************************)
(* Bounds of the model.                                                    *)
(***************************************************************************)
\* Largest number of transactions the bank holds.
MaxBank == 2
\* Number of times the tool is run against the same ledger.
MaxRuns == 2

(***************************************************************************)
(* Rust's Option<T>: None is the empty tuple, Some(x) the one-tuple.       *)
(***************************************************************************)
None == << >>
Some(x) == << x >>
IsSome(o) == o # None
Unwrap(o) == o[1]

\* HashMap / serde_json::Map `.get(key)`.
EmptyMap == [k \in {} |-> k]
Get(m, k) == IF k \in DOMAIN m THEN Some(m[k]) ELSE None

(***************************************************************************)
(* Calendar arithmetic behind chrono's NaiveDate: a date is the number of  *)
(* days since 1970-01-01 (proleptic Gregorian calendar).                   *)
(***************************************************************************)
IsLeapYear(y) == (y % 4 = 0 /\ y % 100 # 0) \/ y % 400 = 0

DaysInMonth(y, m) ==
    CASE m \in {1, 3, 5, 7, 8, 10, 12} -> 31
      [] m \in {4, 6, 9, 11} -> 30
      [] OTHER -> IF IsLeapYear(y) THEN 29 ELSE 28

DaysFromCivil(y, m, d) ==
    LET yy  == IF m <= 2 THEN y - 1 ELSE y
        era == yy \div 400
        yoe == yy - era * 400
        mp  == IF m > 2 THEN m - 3 ELSE m + 9
        doy == (153 * mp + 2) \div 5 + d - 1
        doe == yoe * 365 + yoe \div 4 - yoe \div 100 + doy
    IN  era * 146097 + doe - 719468

CivilFromDays(z) ==
    LET zz  == z + 719468
        era == zz \div 146097
        doe == zz - era * 146097
        yoe == (doe - doe \div 1460 + doe \div 36524 - doe \div 146096) \div 365
        doy == doe - (365 * yoe + yoe \div 4 - yoe \div 100)
        mp  == (5 * doy + 2) \div 153
        d   == doy - (153 * mp + 2) \div 5 + 1
        m   == IF mp < 10 THEN mp + 3 ELSE mp - 9
        y   == yoe + era * 400 + (IF m <= 2 THEN 1 ELSE 0)
    IN  [year |-> y, month |-> m, day |-> d]

(***************************************************************************)
(* Text is a tuple of one-character strings, so that it can be scanned.    *)
(***************************************************************************)
Digits == <<"0", "1", "2", "3", "4", "5", "6", "7", "8", "9">>
IsDigit(c) == \E i \in 1..10 : Digits[i] = c
DigitValue(c) == (CHOOSE i \in 1..10 : Digits[i] = c) - 1

RECURSIVE Number(_)
Number(s) ==
    IF s = << >> THEN 0
    ELSE 10 * Number(SubSeq(s, 1, Len(s) - 1)) + DigitValue(s[Len(s)])

\* The longest run of digits at the head of s, at most `width` long.
RECURSIVE DigitRun(_, _)
DigitRun(s, width) ==
    IF width = 0 \/ s = << >> \/ ~IsDigit(s[1]) THEN << >>
    ELSE <<s[1]>> \o DigitRun(Tail(s), width - 1)

Drop(s, n) == SubSeq(s, n + 1, Len(s))

\* Zero-padded decimal of n >= 0, at least `width` digits.
RECURSIVE Pad(_, _)
Pad(n, width) ==
    IF n < 10 /\ width <= 1 THEN <<Digits[n + 1]>>
    ELSE Pad(n \div 10, width - 1) \o <<Digits[(n % 10) + 1]>>

(***************************************************************************)
(* NaiveDate::parse_from_str(s, "%Y-%m-%d"): %Y takes 1 to 4 digits, %m    *)
(* and %d take 1 to 2, each `-` is literal, nothing may follow, and the    *)
(* fields must name a day of the calendar.  (A signed year is not          *)
(* modelled; no input of the model has one.)  None stands for Err.         *)
(***************************************************************************)
ParseDate(s) ==
    LET ys == DigitRun(s, 4)
        r1 == Drop(s, Len(ys))
        ms == IF r1 # << >> /\ r1[1] = "-" THEN DigitRun(Tail(r1), 2) ELSE << >>
        r2 == IF ms # << >> THEN Drop(r1, 1 + Len(ms)) ELSE << >>
        ds == IF r2 # << >> /\ r2[1] = "-" THEN DigitRun(Tail(r2), 2) ELSE << >>
        r3 == IF ds # << >> THEN Drop(r2, 1 + Len(ds)) ELSE <<"?">>
        y  == Number(ys)
        m  == Number(ms)
        d  == Number(ds)
    IN  IF /\ ys # << >> /\ ms # << >> /\ ds # << >> /\ r3 = << >>
           /\ m \in 1..12
           /\ d >= 1 /\ d <= DaysInMonth(y, m)
        THEN Some(DaysFromCivil(y, m, d))
        ELSE None

\* NaiveDate/DateTime `.format("%Y-%m-%d").to_string()`.
FormatDate(day) ==
    LET c == CivilFromDays(day)
    IN  Pad(c.year, 4) \o <<"-">> \o Pad(c.month, 2) \o <<"-">> \o Pad(c.day, 2)

(***************************************************************************)
(* serde_json::Value, in one record shape.                                 *)
(***************************************************************************)
JObject(m) == [kind |-> "object", members |-> m, str |-> ""]
JString(t) == [kind |-> "string", members |-> EmptyMap, str |-> t]
JNumber == [kind |-> "number", members |-> EmptyMap, str |-> ""]
JArray == [kind |-> "array", members |-> EmptyMap, str |-> ""]

\* Value::as_object and Value::as_str.
AsObject(v) == IF v.kind = "object" THEN Some(v.members) ELSE None
AsStr(v) == IF v.kind = "string" THEN Some(v.str) ELSE None

(***************************************************************************)
(* The inputs of a run.                                                    *)
(***************************************************************************)
\* Utc::now().naive_utc().date() of the first run.
Today0 == DaysFromCivil(2024, 3, 1)

\* --sync-from: today0, nine days before it (across the leap day), a day
\* after it, a day the calendar does not have, and text that is no date.
SyncFromInputs ==
    { <<"2", "0", "2", "4", "-", "0", "3", "-", "0", "1">>,
      <<"2", "0", "2", "4", "-", "0", "2", "-", "2", "1">>,
      <<"2", "0", "2", "4", "-", "0", "3", "-", "0", "5">>,
      <<"2", "0", "2", "4", "-", "0", "2", "-", "3", "0">>,
      <<"t", "o", "d", "a", "y">> }

\* cli.ynab.account_id and cli.ynab.budget_id.
AccountId == "account-1"
BudgetId == "budget-1"

\* The texts a mapping file of the model can hold.
MapAText == "{\"n1\": \"L1\", \"n2\": \"L9\"}"
MapBText == "{\"n1\": \"L2\", \"n2\": 5}"

\* --n26-category-mapping: the paths of the model and what the file system
\* holds there.
FileSystem ==
    [ missing  |-> [exists |-> FALSE, readable |-> FALSE, text |-> ""],
      locked   |-> [exists |-> TRUE, readable |-> FALSE, text |-> ""],
      garbage  |-> [exists |-> TRUE, readable |-> TRUE, text |-> "{\"n1\": "],
      array    |-> [exists |-> TRUE, readable |-> TRUE, text |-> "[\"n1\", \"L1\"]"],
      mapA     |-> [exists |-> TRUE, readable |-> TRUE, text |-> MapAText],
      mapB     |-> [exists |-> TRUE, readable |-> TRUE, text |-> MapBText] ]

Paths == DOMAIN FileSystem

\* serde_json::from_str, tabulated on the texts above; None stands for Err.
FromStr(text) ==
    CASE text = MapAText -> Some(JObject([n1 |-> JString("L1"), n2 |-> JString("L9")]))
      [] text = MapBText -> Some(JObject([n1 |-> JString("L2"), n2 |-> JNumber]))
      [] text = "[\"n1\", \"L1\"]" -> Some(JArray)
      [] OTHER -> None

\* What n26.get_categories() can answer: category code -> canonical name.
N26CategoryChoices ==
    { [c1 |-> "n1", c2 |-> "n2"],
      [c1 |-> "n3", c2 |-> "n1"] }

\* What ynab.get_categories() can answer: category name -> Category.
YnabCategoryChoices ==
    { [L1 |-> [id |-> "cat1", name |-> "L1"], L2 |-> [id |-> "cat2", name |-> "L2"]],
      [L1 |-> [id |-> "cat1", name |-> "L1"]] }

\* n26::Transaction.  visible_ts is <<day, second of the day>>.
BankPool ==
    << [id |-> "t1", visible_ts |-> <<Today0, 3600>>, amount |-> -1250,
        category |-> "c1", reference_text |-> Some("X"),
        merchant_name |-> Some("Y"), merchant_city |-> Some("Z")],
       [id |-> "t2", visible_ts |-> <<Today0 - 9, 86399>>, amount |-> -300,
        category |-> "c2", reference_text |-> None,
        merchant_name |-> Some("Y"), merchant_city |-> Some("Z")],
       [id |-> "t3", visible_ts |-> <<Today0 - 1, 0>>, amount |-> 5000,
        category |-> "c3", reference_text |-> None,
        merchant_name |-> Some("Y"), merchant_city |-> None] >>

\* The limit main hands to n26.get_transactions.
Limit == 100000000

(***************************************************************************)
(* convert_transaction, the closure of main.                               *)
(***************************************************************************)
\* Option::and_then.
AndThenGet(o, m) == IF IsSome(o) THEN Get(m, Unwrap(o)) ELSE None

\* ResolveCategory, taking the name of the category that was found for its id.
ResolveCategoryName(code, n26c, mapping, ynabc) ==
    LET name   == Get(n26c, code)
        mapped == AndThenGet(name, mapping)
        ledger == IF IsSome(mapped) THEN AsStr(Unwrap(mapped)) ELSE None
        found  == AndThenGet(ledger, ynabc)
    IN  IF IsSome(found) THEN Some(Unwrap(found).name) ELSE None

\* The category chain: n26_categories.get, category_mapping.get, as_str,
\* ynab_categories.get, and the id of what was found.
ResolveCategory(code, n26c, mapping, ynabc) ==
    LET name   == Get(n26c, code)
        mapped == AndThenGet(name, mapping)
        ledger == IF IsSome(mapped) THEN AsStr(Unwrap(mapped)) ELSE None
        found  == AndThenGet(ledger, ynabc)
    IN  IF IsSome(found) THEN Some(Unwrap(found).id) ELSE None

\* format!("{} {}", merchant_name, merchant_city)
FormatNameCity(merchant_name, merchant_city) == merchant_name \o " " \o merchant_city

\* Memo, preferring the merchant to the reference text.
MemoMerchantFirst(transaction) ==
    IF IsSome(transaction.merchant_name)
    THEN IF IsSome(transaction.merchant_city)
         THEN Some(FormatNameCity(Unwrap(transaction.merchant_name),
                                  Unwrap(transaction.merchant_city)))
         ELSE Some(Unwrap(transaction.merchant_name))
    ELSE IF IsSome(transaction.reference_text)
         THEN Some(Unwrap(transaction.reference_text))
         ELSE None

Memo(transaction) ==
    IF IsSome(transaction.reference_text)
    THEN Some(Unwrap(transaction.reference_text))
    ELSE IF IsSome(transaction.merchant_name)
         THEN IF IsSome(transaction.merchant_city)
              THEN Some(FormatNameCity(Unwrap(transaction.merchant_name),
                                       Unwrap(transaction.merchant_city)))
              ELSE Some(Unwrap(transaction.merchant_name))
         ELSE None

\* The YNABTransaction convert_transaction builds from its parts.
YNABTransaction(transaction, category, approved, memo, import_id) ==
    [ account_id  |-> AccountId,
      date        |-> FormatDate(transaction.visible_ts[1]),
      amount      |-> transaction.amount,
      payee_id    |-> None,
      payee_name  |-> None,
      category_id |-> category,
      memo        |-> memo,
      cleared     |-> "Cleared",
      approved    |-> approved,
      flag_color  |-> None,
      import_id   |-> import_id ]

\* convert_transaction, approving every transaction.
convert_transaction_approved(transaction, n26c, mapping, ynabc) ==
    YNABTransaction(transaction,
                    ResolveCategory(transaction.category, n26c, mapping, ynabc),
                    TRUE, Memo(transaction), Some(transaction.id))

\* convert_transaction, leaving the import id out.
convert_transaction_no_import_id(transaction, n26c, mapping, ynabc) ==
    LET category == ResolveCategory(transaction.category, n26c, mapping, ynabc)
    IN  YNABTransaction(transaction, category, IsSome(category), Memo(transaction), None)

convert_transaction(transaction, n26c, mapping, ynabc) ==
    LET category == ResolveCategory(transaction.category, n26c, mapping, ynabc)
        approved == IsSome(category)
        memo     == Memo(transaction)
    IN  YNABTransaction(transaction, category, approved, memo, Some(transaction.id))

\* .into_iter().map(|t| convert_transaction(&t)).collect()
ConvertAll(fetched, n26c, mapping, ynabc) ==
    [i \in 1..Len(fetched) |-> convert_transaction(fetched[i], n26c, mapping, ynabc)]

(***************************************************************************)
(* The collaborators of the ynab_sync library, which the binary calls but  *)
(* does not define.                                                        *)
(***************************************************************************)
\* A source asked for `days` days answers with what is dated within the last
\* `days` days, today included.
InWindow(day, now, days) == day > now - days /\ day <= now

Take(s, n) == IF Len(s) <= n THEN s ELSE SubSeq(s, 1, n)

\* n26.get_transactions(days, limit): `held` is what the bank holds.
N26GetTransactions(held, now, days, limit) ==
    Take(SelectSeq(held, LAMBDA t : InWindow(t.visible_ts[1], now, days)), limit)

\* ynab.get_transactions(budget_id, account_id, days): entries are
\* [id, tx], id being the entry's identity in the ledger.
YnabGetTransactions(entries, account_id, now, days) ==
    SelectSeq(entries, LAMBDA e : /\ e.tx.account_id = account_id
                                  /\ InWindow(Unwrap(ParseDate(e.tx.date)), now, days))

\* Whether a candidate and an existing entry have the same import id.
Matches(candidate, entry) ==
    /\ IsSome(candidate.import_id)
    /\ IsSome(entry.tx.import_id)
    /\ Unwrap(candidate.import_id) = Unwrap(entry.tx.import_id)

\* The operation for one candidate.
ReconcileOne(candidate, existing, force) ==
    LET hits == {j \in 1..Len(existing) : Matches(candidate, existing[j])}
    IN  IF hits = {}
        THEN [op |-> "Create", id |-> 0, tx |-> candidate]
        ELSE LET first == CHOOSE j \in hits : \A k \in hits : j <= k
             IN  IF force
                 THEN [op |-> "Update", id |-> existing[first].id, tx |-> candidate]
                 ELSE [op |-> "Skip", id |-> existing[first].id, tx |-> candidate]

Reconcile(candidates, existing, force) ==
    [i \in 1..Len(candidates) |-> ReconcileOne(candidates[i], existing, force)]

\* The ledger after one operation.
ApplyOne(entries, o) ==
    CASE o.op = "Create" -> Append(entries, [id |-> Len(entries) + 1, tx |-> o.tx])
      [] o.op = "Update" ->
            [entries EXCEPT ![o.id].tx =
                [@ EXCEPT !.category_id = o.tx.category_id,
                          !.memo = o.tx.memo,
                          !.approved = o.tx.approved,
                          !.cleared = o.tx.cleared]]
      [] OTHER -> entries

\* The ledger after the operations from the i-th on, those in `rejected`
\* failing and leaving the ledger as it was.
RECURSIVE ApplyFrom(_, _, _, _)
ApplyFrom(entries, operations, rejected, i) ==
    IF i > Len(operations) THEN entries
    ELSE ApplyFrom(IF i \in rejected THEN entries ELSE ApplyOne(entries, operations[i]),
                   operations, rejected, i + 1)

(***************************************************************************)
(* State.                                                                  *)
(***************************************************************************)
VARIABLES
    bank,                    \* the bank's transactions, in the order it lists them
    ledger,                  \* the ledger's entries, [id, tx]
    today,                   \* Utc::now().naive_utc().date()
    runs,                    \* runs started so far
    synced,                  \* ids of the bank transactions earlier runs created in the ledger
    ledger0,                 \* the ledger when the current run started
    pc,                      \* the statement of main that runs next
    sync_from,               \* cli.sync_from
    category_mapping_file,   \* cli.category_mapping_file
    force_update,            \* cli.ynab.force_update
    days_to_sync,
    category_mapping_string,
    category_mapping_value,
    category_mapping,
    ynab_categories,
    ynab_transactions,
    n26_categories,
    n26_transactions,        \* what n26.get_transactions returned
    transactions,
    ops,                     \* what ynab.sync decided, one operation per candidate
    failed,                  \* the operations the ledger rejected
    error,                   \* the Err main returned
    calls                    \* the calls to the bank and the ledger, in order

world == <<bank, ledger, today, runs, synced, ledger0>>
cli == <<sync_from, category_mapping_file, force_update>>
mapping == <<category_mapping_string, category_mapping_value, category_mapping>>
fetched == <<ynab_categories, ynab_transactions, n26_categories, n26_transactions>>
result == <<transactions, ops, failed>>
vars == <<world, pc, cli, days_to_sync, mapping, fetched, result, error, calls>>

\* The locals of main before main has run.
FreshRun ==
    /\ pc = "from_args"
    /\ sync_from = << >>
    /\ category_mapping_file = "missing"
    /\ force_update = FALSE
    /\ days_to_sync = 0
    /\ category_mapping_string = ""
    /\ category_mapping_value = JArray
    /\ category_mapping = EmptyMap
    /\ ynab_categories = EmptyMap
    /\ ynab_transactions = << >>
    /\ n26_categories = EmptyMap
    /\ n26_transactions = << >>
    /\ transactions = << >>
    /\ ops = << >>
    /\ failed = {}
    /\ error = None
    /\ calls = << >>

\* What the ledger can hold before the first run: nothing, an entry typed in
\* by hand, or an entry an earlier import of bank transaction t1 left.
Entry(id, import_id, category_id, memo, approved) ==
    [id |-> id,
     tx |-> [account_id |-> AccountId, date |-> FormatDate(Today0), amount |-> -1250,
             payee_id |-> None, payee_name |-> None, category_id |-> category_id,
             memo |-> memo, cleared |-> "Uncleared", approved |-> approved,
             flag_color |-> None, import_id |-> import_id]]

InitialLedgers ==
    { << >>,
      << Entry(1, None, Some("cat1"), Some("by hand"), TRUE) >>,
      << Entry(1, Some("t1"), None, Some("old"), FALSE) >> }

\* The transactions of BankPool at the indices `held`, in BankPool's order.
RECURSIVE Picked(_, _)
Picked(held, i) ==
    IF i > Len(BankPool) THEN << >>
    ELSE (IF i \in held THEN <<BankPool[i]>> ELSE << >>) \o Picked(held, i + 1)

Banks == {Picked(held, 1) : held \in {h \in SUBSET (1..Len(BankPool)) : Cardinality(h) <= MaxBank}}

Init ==
    /\ bank \in Banks
    /\ ledger \in InitialLedgers
    /\ ledger0 = ledger
    /\ today = Today0
    /\ runs = 1
    /\ synced = {}
    /\ FreshRun

(***************************************************************************)
(* main, statement by statement.  `?` on an Err ends the run: pc becomes   *)
(* "failed" and error holds the check that failed and its ErrorKind.       *)
(***************************************************************************)
Err(check, kind) == Some([check |-> check, kind |-> kind])
Called(name, ok) == Append(calls, [call |-> name, ok |-> ok])

\* Cli::from_args() and setup_logging(..)?
FromArgs ==
    /\ pc = "from_args"
    /\ \E s \in SyncFromInputs, f \in Paths, u \in BOOLEAN, logging \in BOOLEAN :
          /\ sync_from' = s
          /\ category_mapping_file' = f
          /\ force_update' = u
          /\ pc' = IF logging THEN "parse_sync_from" ELSE "failed"
          /\ error' = IF logging THEN None ELSE Err("setup_logging", "Logging")
    /\ UNCHANGED <<world, days_to_sync, mapping, fetched, result, calls>>

\* ParseSyncFrom, falling back to one day when the date does not parse.
ParseSyncFromLenient ==
    /\ pc = "parse_sync_from"
    /\ LET parsed == ParseDate(sync_from)
       IN  days_to_sync' = IF IsSome(parsed) THEN (today - Unwrap(parsed)) + 1 ELSE 1
    /\ pc' = "mapping_exists"
    /\ error' = None
    /\ UNCHANGED <<world, cli, mapping, fetched, result, calls>>

\* [ 1/10] NaiveDate::parse_from_str(..)? and days_to_sync
ParseSyncFrom ==
    /\ pc = "parse_sync_from"
    /\ LET parsed == ParseDate(sync_from)
       IN  IF IsSome(parsed)
           THEN /\ days_to_sync' = (today - Unwrap(parsed)) + 1
                /\ pc' = "mapping_exists"
                /\ error' = None
           ELSE /\ days_to_sync' = days_to_sync
                /\ pc' = "failed"
                /\ error' = Err("date", "ChronoParse")
    /\ UNCHANGED <<world, cli, mapping, fetched, result, calls>>

\* [ 2/10] PathBuf::from(..).exists()
CheckMappingExists ==
    /\ pc = "mapping_exists"
    /\ IF FileSystem[category_mapping_file].exists
       THEN pc' = "mapping_read" /\ error' = None
       ELSE pc' = "failed" /\ error' = Err("exists", "ArgParseCategoryMappingCanNotRead")
    /\ UNCHANGED <<world, cli, days_to_sync, mapping, fetched, result, calls>>

\* read_to_string(..).with_context(..)?
ReadMapping ==
    /\ pc = "mapping_read"
    /\ IF FileSystem[category_mapping_file].readable
       THEN /\ category_mapping_string' = FileSystem[category_mapping_file].text
            /\ pc' = "mapping_parse"
            /\ error' = None
       ELSE /\ category_mapping_string' = category_mapping_string
            /\ pc' = "failed"
            /\ error' = Err("read", "ArgParseCategoryMappingCanNotRead")
    /\ UNCHANGED <<world, cli, days_to_sync, category_mapping_value, category_mapping,
                   fetched, result, calls>>

\* serde_json::from_str(..).context(..)?
ParseMapping ==
    /\ pc = "mapping_parse"
    /\ LET parsed == FromStr(category_mapping_string)
       IN  IF IsSome(parsed)
           THEN /\ category_mapping_value' = Unwrap(parsed)
                /\ pc' = "mapping_object"
                /\ error' = None
           ELSE /\ category_mapping_value' = category_mapping_value
                /\ pc' = "failed"
                /\ error' = Err("json", "ArgParseCategoryMappingCanNotParse")
    /\ UNCHANGED <<world, cli, days_to_sync, category_mapping_string, category_mapping,
                   fetched, result, calls>>

\* match category_mapping_value.as_object()
MappingAsObject ==
    /\ pc = "mapping_object"
    /\ LET object == AsObject(category_mapping_value)
       IN  IF IsSome(object)
           THEN /\ category_mapping' = Unwrap(object)
                /\ pc' = "validate_cli"
                /\ error' = None
           ELSE /\ category_mapping' = category_mapping
                /\ pc' = "failed"
                /\ error' = Err("object", "ArgParseCategoryMappingCanNotParse")
    /\ UNCHANGED <<world, cli, days_to_sync, category_mapping_string,
                   category_mapping_value, fetched, result, calls>>

\* ynab.validate_cli(..)?, counted as a call to the ledger
ValidateCli ==
    /\ pc = "validate_cli"
    /\ \E ok \in BOOLEAN :
          /\ calls' = Called("ynab.validate_cli", ok)
          /\ pc' = IF ok THEN "ynab_categories" ELSE "failed"
          /\ error' = IF ok THEN None ELSE Err("ynab.validate_cli", "Ynab")
    /\ UNCHANGED <<world, cli, days_to_sync, mapping, fetched, result>>

\* [ 5/10] ynab.get_categories(..)?
FetchYnabCategories ==
    /\ pc = "ynab_categories"
    /\ \E ok \in BOOLEAN, answer \in YnabCategoryChoices :
          /\ calls' = Called("ynab.get_categories", ok)
          /\ ynab_categories' = IF ok THEN answer ELSE ynab_categories
          /\ pc' = IF ok THEN "ynab_transactions" ELSE "failed"
          /\ error' = IF ok THEN None ELSE Err("ynab.get_categories", "Ynab")
    /\ UNCHANGED <<world, cli, days_to_sync, mapping, ynab_transactions, n26_categories,
                   n26_transactions, result>>

\* FetchYnabTransactions, going on with no transactions when the call fails.
FetchYnabTransactionsLenient ==
    /\ pc = "ynab_transactions"
    /\ \E ok \in BOOLEAN :
          /\ calls' = Called("ynab.get_transactions", ok)
          /\ ynab_transactions' =
                IF ok THEN YnabGetTransactions(ledger, AccountId, today, days_to_sync)
                ELSE << >>
    /\ pc' = "n26_new"
    /\ error' = None
    /\ UNCHANGED <<world, cli, days_to_sync, mapping, ynab_categories, n26_categories,
                   n26_transactions, result>>

\* [ 6/10] ynab.get_transactions(.., days_to_sync)?
FetchYnabTransactions ==
    /\ pc = "ynab_transactions"
    /\ \E ok \in BOOLEAN :
          /\ calls' = Called("ynab.get_transactions", ok)
          /\ ynab_transactions' =
                IF ok THEN YnabGetTransactions(ledger, AccountId, today, days_to_sync)
                ELSE ynab_transactions
          /\ pc' = IF ok THEN "n26_new" ELSE "failed"
          /\ error' = IF ok THEN None ELSE Err("ynab.get_transactions", "Ynab")
    /\ UNCHANGED <<world, cli, days_to_sync, mapping, ynab_categories, n26_categories,
                   n26_transactions, result>>

\* N26New, after which the bank's transactions are fetched without its categories.
N26NewThenTransactions ==
    /\ pc = "n26_new"
    /\ \E ok \in BOOLEAN :
          /\ calls' = Called("n26.new", ok)
          /\ pc' = IF ok THEN "n26_transactions" ELSE "failed"
          /\ error' = IF ok THEN None ELSE Err("n26.new", "N26Authentication")
    /\ UNCHANGED <<world, cli, days_to_sync, mapping, fetched, result>>

\* [ 7/10] N26::new(username, password)?
N26New ==
    /\ pc = "n26_new"
    /\ \E ok \in BOOLEAN :
          /\ calls' = Called("n26.new", ok)
          /\ pc' = IF ok THEN "n26_categories" ELSE "failed"
          /\ error' = IF ok THEN None ELSE Err("n26.new", "N26Authentication")
    /\ UNCHANGED <<world, cli, days_to_sync, mapping, fetched, result>>

\* [ 8/10] n26.get_categories()?
FetchN26Categories ==
    /\ pc = "n26_categories"
    /\ \E ok \in BOOLEAN, answer \in N26CategoryChoices :
          /\ calls' = Called("n26.get_categories", ok)
          /\ n26_categories' = IF ok THEN answer ELSE n26_categories
          /\ pc' = IF ok THEN "n26_transactions" ELSE "failed"
          /\ error' = IF ok THEN None ELSE Err("n26.get_categories", "N26")
    /\ UNCHANGED <<world, cli, days_to_sync, mapping, ynab_categories, ynab_transactions,
                   n26_transactions, result>>

\* [ 9/10] n26.get_transactions(days_to_sync, 100_000_000)?
FetchN26Transactions ==
    /\ pc = "n26_transactions"
    /\ \E ok \in BOOLEAN :
          /\ calls' = Called("n26.get_transactions", ok)
          /\ n26_transactions' =
                IF ok THEN N26GetTransactions(bank, today, days_to_sync, Limit)
                ELSE n26_transactions
          /\ pc' = IF ok THEN "convert" ELSE "failed"
          /\ error' = IF ok THEN None ELSE Err("n26.get_transactions", "N26")
    /\ UNCHANGED <<world, cli, days_to_sync, mapping, ynab_categories, ynab_transactions,
                   n26_categories, result>>

\* .into_iter().map(|t| convert_transaction(&t)).collect()
ConvertTransactions ==
    /\ pc = "convert"
    /\ transactions' = ConvertAll(n26_transactions, n26_categories, category_mapping,
                                  ynab_categories)
    /\ pc' = "sync"
    /\ UNCHANGED <<world, cli, days_to_sync, mapping, fetched, ops, failed, error, calls>>

\* SyncArgs, handing over no existing transactions.
SyncArgsNoExisting ==
    [candidates |-> transactions, existing |-> << >>,
     budget_id |-> BudgetId, force |-> force_update]

\* SyncArgs, never forcing an update.
SyncArgsNeverForce ==
    [candidates |-> transactions, existing |-> ynab_transactions,
     budget_id |-> BudgetId, force |-> FALSE]

\* The arguments of ynab.sync(transactions, ynab_transactions, budget_id, force_update, 9, 10).
SyncArgs ==
    [candidates |-> transactions, existing |-> ynab_transactions,
     budget_id |-> BudgetId, force |-> force_update]

\* ynab.sync(..)?: the operations are decided, then applied one by one; the
\* ledger may reject any of them, and sync answers Err when it rejected some.
Sync ==
    /\ pc = "sync"
    /\ LET decided == Reconcile(SyncArgs.candidates, SyncArgs.existing, SyncArgs.force)
           writes  == {i \in 1..Len(decided) : decided[i].op # "Skip"}
       IN  \E rejected \in SUBSET writes :
              /\ ops' = decided
              /\ failed' = rejected
              /\ ledger' = ApplyFrom(ledger, decided, rejected, 1)
              /\ calls' = Called("ynab.sync", rejected = {})
              /\ pc' = IF rejected = {} THEN "done" ELSE "failed"
              /\ error' = IF rejected = {} THEN None ELSE Err("ynab.sync", "Ynab")
    /\ UNCHANGED <<bank, today, runs, synced, ledger0, cli, days_to_sync, mapping,
                   fetched, transactions>>

\* The tool is run again, the same day or the day after, against the ledger
\* the earlier runs left.
NewRun ==
    /\ pc \in {"done", "failed"}
    /\ runs < MaxRuns
    /\ runs' = runs + 1
    /\ \E later \in {0, 1} :
          /\ today + later <= Today0 + 1
          /\ today' = today + later
    /\ ledger0' = ledger
    /\ synced' = synced \cup
          {n26_transactions[i].id :
              i \in {j \in (1..Len(ops)) \cap (1..Len(n26_transactions)) :
                        ops[j].op = "Create" /\ j \notin failed}}
    /\ pc' = "from_args"
    /\ sync_from' = << >>
    /\ category_mapping_file' = "missing"
    /\ force_update' = FALSE
    /\ days_to_sync' = 0
    /\ category_mapping_string' = ""
    /\ category_mapping_value' = JArray
    /\ category_mapping' = EmptyMap
    /\ ynab_categories' = EmptyMap
    /\ ynab_transactions' = << >>
    /\ n26_categories' = EmptyMap
    /\ n26_transactions' = << >>
    /\ transactions' = << >>
    /\ ops' = << >>
    /\ failed' = {}
    /\ error' = None
    /\ calls' = << >>
    /\ UNCHANGED <<bank, ledger>>

Next ==
    \/ FromArgs
    \/ ParseSyncFrom
    \/ CheckMappingExists
    \/ ReadMapping
    \/ ParseMapping
    \/ MappingAsObject
    \/ ValidateCli
    \/ FetchYnabCategories
    \/ FetchYnabTransactions
    \/ N26New
    \/ FetchN26Categories
    \/ FetchN26Transactions
    \/ ConvertTransactions
    \/ Sync
    \/ NewRun

Spec == Init /\ [][Next]_vars

(***************************************************************************)
(* convert_transaction on its own: main stands before the conversion, and  *)
(* what was fetched is any bank transaction, any answer of the two         *)
(* category calls and any mapping file.                                    *)
(***************************************************************************)
ConvertInputs ==
    [ id : {"t1"}, visible_ts : {<<Today0, 3600>>}, amount : {-1250},
      category : {"c1", "c2", "c3"},
      reference_text : {None, Some("X"), Some("")},
      merchant_name : {None, Some("Y")},
      merchant_city : {None, Some("Z")} ]

\* The calls main has made when it reaches the conversion.
CallsBeforeConvert ==
    [i \in 1..6 |->
        [call |-> <<"ynab.validate_cli", "ynab.get_categories", "ynab.get_transactions",
                    "n26.new", "n26.get_categories", "n26.get_transactions">>[i],
         ok |-> TRUE]]

InitConvert ==
    /\ \E t \in ConvertInputs : bank = <<t>> /\ n26_transactions = <<t>>
    /\ ledger = << >>
    /\ ledger0 = << >>
    /\ today = Today0
    /\ runs = MaxRuns
    /\ synced = {}
    /\ pc = "convert"
    /\ sync_from = FormatDate(Today0)
    /\ category_mapping_file \in {"mapA", "mapB"}
    /\ force_update = FALSE
    /\ days_to_sync = 1
    /\ category_mapping_string = FileSystem[category_mapping_file].text
    /\ category_mapping_value = Unwrap(FromStr(category_mapping_string))
    /\ category_mapping = Unwrap(AsObject(category_mapping_value))
    /\ ynab_categories \in YnabCategoryChoices
    /\ ynab_transactions = << >>
    /\ n26_categories \in N26CategoryChoices
    /\ transactions = << >>
    /\ ops = << >>
    /\ failed = {}
    /\ error = None
    /\ calls = CallsBeforeConvert

NextConvert == ConvertTransactions

SpecConvert == InitConvert /\ [][NextConvert]_vars

(***************************************************************************)
(* Properties.                                                             *)
(***************************************************************************)
\* The names of the calls made so far.
CallNames == [i \in 1..Len(calls) |-> calls[i].call]
\* ynab.sync has been called in this run.
SyncCalled == Len(calls) > 0 /\ calls[Len(calls)].call = "ynab.sync"
\* The conversion has run in this run.
Converted == pc = "sync" \/ SyncCalled

\* The existing transactions whose import id is that of the i-th candidate.
Hits(i) ==
    {j \in 1..Len(ynab_transactions) :
        /\ IsSome(transactions[i].import_id)
        /\ IsSome(ynab_transactions[j].tx.import_id)
        /\ transactions[i].import_id = ynab_transactions[j].tx.import_id}

\* C1: with force_update false, a run gives Skip to every bank transaction
\* an earlier run created in the ledger; when all it fetched are such, the
\* ledger is as it was when the run started; and no two entries of the
\* ledger ever carry the same import id.
IdempotentRerun ==
    /\ \A j, k \in 1..Len(ledger) :
          (j # k /\ IsSome(ledger[j].tx.import_id))
              => ledger[j].tx.import_id # ledger[k].tx.import_id
    /\ (SyncCalled /\ ~force_update) =>
          /\ Len(ops) = Len(n26_transactions)
          /\ \A i \in 1..Len(ops) :
                n26_transactions[i].id \in synced => ops[i].op = "Skip"
          /\ (\A i \in 1..Len(ops) : n26_transactions[i].id \in synced)
                => ledger = ledger0

\* A second run without force_update has met a transaction the first run created.
IdempotentRerunWitness ==
    /\ runs = 2 /\ pc = "done" /\ ~force_update
    /\ ledger = ledger0 /\ ledger # << >>
    /\ \E i \in 1..Len(ops) : n26_transactions[i].id \in synced /\ ops[i].op = "Skip"

\* C2: a candidate is given Create exactly when no existing transaction has
\* a present import id equal to the candidate's present import id, and the
\* Create carries the candidate; with no existing transactions every
\* candidate is given Create, whatever force_update is.
CreateIffUnmatched ==
    SyncCalled =>
        /\ Len(ops) = Len(transactions)
        /\ \A i \in 1..Len(ops) :
              /\ (ops[i].op = "Create") <=> (Hits(i) = {})
              /\ ops[i].tx = transactions[i]
        /\ ynab_transactions = << >> => \A i \in 1..Len(ops) : ops[i].op = "Create"

\* ynab.sync has given Create to one candidate and not to another, one of
\* the existing transactions having no import id.
CreateIffUnmatchedWitness ==
    /\ SyncCalled
    /\ \E i \in 1..Len(ops) : ops[i].op = "Create"
    /\ \E j \in 1..Len(ynab_transactions) : ynab_transactions[j].tx.import_id = None
    /\ \E i \in 1..Len(ops) : ops[i].op # "Create"

\* C3: a candidate that matches an existing transaction is never given Create;
\* without force_update it is given Skip and the existing entry stays as it
\* was fetched; with force_update it is given Update, addressed to the
\* existing entry and carrying the candidate's category, memo, approved and
\* cleared, which the entry then holds, its other fields kept, unless the
\* ledger rejected the operation.
MatchedUpdatePolicy ==
    SyncCalled =>
        /\ Len(ops) = Len(transactions)
        /\ \A i \in 1..Len(ops) :
              Hits(i) # {} =>
                LET e   == ynab_transactions[CHOOSE j \in Hits(i) : \A k \in Hits(i) : j <= k]
                    c   == transactions[i]
                    now == ledger[e.id]
                IN  /\ ops[i].op # "Create"
                    /\ ~force_update => ops[i].op = "Skip" /\ now = e
                    /\ force_update =>
                          /\ ops[i].op = "Update"
                          /\ ops[i].id = e.id
                          /\ ops[i].tx.category_id = c.category_id
                          /\ ops[i].tx.memo = c.memo
                          /\ ops[i].tx.approved = c.approved
                          /\ ops[i].tx.cleared = c.cleared
                          /\ i \in failed => now = e
                          /\ i \notin failed =>
                                now = [e EXCEPT !.tx.category_id = c.category_id,
                                                !.tx.memo = c.memo,
                                                !.tx.approved = c.approved,
                                                !.tx.cleared = c.cleared]

\* A forced update has given an existing entry another category and memo.
MatchedUpdatePolicyWitness ==
    /\ pc = "done" /\ force_update
    /\ \E i \in 1..Len(ops) :
          /\ ops[i].op = "Update"
          /\ ledger[ops[i].id].tx.category_id = Some("cat2")
          /\ ledger0[ops[i].id].tx.category_id # Some("cat2")
          /\ ledger[ops[i].id].tx.import_id = ledger0[ops[i].id].tx.import_id

\* The first of the checks of the arguments, in the order date format, file
\* existence, file readability, JSON parse, top level an object, that the
\* arguments s (--sync-from) and f (the mapping file) fail, or "none".
FirstFailingCheck(s, f) ==
    CASE ParseDate(s) = None -> "date"
      [] ~FileSystem[f].exists -> "exists"
      [] ~FileSystem[f].readable -> "read"
      [] FromStr(FileSystem[f].text) = None -> "json"
      [] AsObject(Unwrap(FromStr(FileSystem[f].text))) = None -> "object"
      [] OTHER -> "none"

\* main has computed days_to_sync in this run.
WindowComputed ==
    /\ pc \notin {"from_args", "parse_sync_from"}
    /\ ~(pc = "failed" /\ Unwrap(error).check \in {"setup_logging", "date"})

\* C4: once main has parsed a start date, days_to_sync is (today - start
\* date) + 1 and at least 1, also for a start date after today; a start date
\* that does not parse fails the run and no day count is computed.
WindowAtLeastOne ==
    /\ WindowComputed =>
          /\ IsSome(ParseDate(sync_from))
          /\ days_to_sync = (today - Unwrap(ParseDate(sync_from))) + 1
          /\ days_to_sync >= 1
    /\ (pc \notin {"from_args", "parse_sync_from"} /\ ParseDate(sync_from) = None)
          => pc = "failed" /\ days_to_sync = 0

\* The checks of the arguments and the statement of main that makes each.
ValidationOrder == <<"date", "exists", "read", "json", "object">>
ValidationPc ==
    <<"parse_sync_from", "mapping_exists", "mapping_read", "mapping_parse", "mapping_object">>
ValidationKind ==
    <<"ChronoParse", "ArgParseCategoryMappingCanNotRead", "ArgParseCategoryMappingCanNotRead",
      "ArgParseCategoryMappingCanNotParse", "ArgParseCategoryMappingCanNotParse">>

\* C5: in a run whose arguments fail one of the checks, main never gets past
\* the statement that makes the first failing check, it has called neither
\* the bank nor the ledger, and when it has failed there, its error is that
\* of the first failing check; and whenever a call has been made, the
\* arguments have passed all the checks.
ValidationBeforeNetwork ==
    pc # "from_args" =>
        LET first == FirstFailingCheck(sync_from, category_mapping_file)
        IN  /\ calls # << >> => first = "none"
            /\ \A k \in 1..Len(ValidationOrder) :
                  first = ValidationOrder[k] =>
                      /\ calls = << >>
                      /\ pc \in {ValidationPc[j] : j \in 1..k} \cup {"failed"}
                      /\ (pc = "failed" /\ Unwrap(error).check # "setup_logging")
                            => error = Err(ValidationOrder[k], ValidationKind[k])

\* A mapping file that holds a JSON array has failed the run before any call.
ValidationBeforeNetworkWitness ==
    /\ pc = "failed"
    /\ category_mapping_value = JArray
    /\ category_mapping_string = FileSystem["array"].text
    /\ error = Err("object", "ArgParseCategoryMappingCanNotParse")
    /\ calls = << >>

\* C6: the category of a converted transaction is Some(id) exactly when the
\* bank transaction's category code is in the bank's categories, its name is
\* a key of the mapping, the mapping gives it a string, and that string is a
\* name of the ledger's categories, id being the id of that category; in
\* every other case it is None, and the conversion never fails.
CategoryResolution ==
    /\ Converted => Len(transactions) = Len(n26_transactions) /\ (pc = "sync" => error = None)
    /\ \A i \in 1..Len(transactions) :
          LET code == n26_transactions[i].category
              got  == transactions[i].category_id
          IN  IF /\ code \in DOMAIN n26_categories
                 /\ n26_categories[code] \in DOMAIN category_mapping
                 /\ category_mapping[n26_categories[code]].kind = "string"
                 /\ category_mapping[n26_categories[code]].str \in DOMAIN ynab_categories
              THEN got = Some(ynab_categories[category_mapping[n26_categories[code]].str].id)
              ELSE got = None

\* A category has been resolved through all three stages.
CategoryResolutionWitness ==
    /\ pc = "sync"
    /\ \E i \in 1..Len(transactions) :
          /\ n26_transactions[i].category = "c2"
          /\ n26_categories["c2"] = "n1"
          /\ category_mapping["n1"] = JString("L2")
          /\ transactions[i].category_id = Some("cat2")

\* C7: the memo of a converted transaction is the reference text when there
\* is one; else merchant name, a space and merchant city when there are
\* both; else the merchant name when there is one; else absent.
MemoPrecedence ==
    \A i \in 1..Len(transactions) :
        LET t    == n26_transactions[i]
            memo == transactions[i].memo
        IN  /\ t.reference_text # None => memo = t.reference_text
            /\ (t.reference_text = None /\ t.merchant_name # None /\ t.merchant_city # None)
                  => memo = Some(Unwrap(t.merchant_name) \o " " \o Unwrap(t.merchant_city))
            /\ (t.reference_text = None /\ t.merchant_name # None /\ t.merchant_city = None)
                  => memo = t.merchant_name
            /\ (t.reference_text = None /\ t.merchant_name = None) => memo = None

\* A transaction with reference text, merchant name and merchant city has
\* been converted.
MemoPrecedenceWitness ==
    /\ pc = "sync"
    /\ \E i \in 1..Len(transactions) :
          /\ n26_transactions[i].reference_text = Some("X")
          /\ n26_transactions[i].merchant_name = Some("Y")
          /\ n26_transactions[i].merchant_city = Some("Z")
          /\ transactions[i].memo = Some("X")

\* C8: a converted transaction is approved exactly when it has a category;
\* one whose category code the bank's categories do not hold is unapproved
\* and without category; and every fetched bank transaction is converted
\* into the candidate at its place, carrying its id as import id: none is
\* dropped.
ApprovalDerivation ==
    /\ Converted => Len(transactions) = Len(n26_transactions)
    /\ \A i \in 1..Len(transactions) :
          /\ transactions[i].approved <=> IsSome(transactions[i].category_id)
          /\ n26_transactions[i].category \notin DOMAIN n26_categories
                => ~transactions[i].approved /\ transactions[i].category_id = None
          /\ transactions[i].import_id = Some(n26_transactions[i].id)

\* A transaction with an unknown category code has been created unapproved.
ApprovalDerivationWitness ==
    /\ pc = "done"
    /\ \E i \in 1..Len(transactions) :
          /\ n26_transactions[i].category = "c3"
          /\ ~transactions[i].approved
          /\ ops[i].op = "Create"
          /\ \E j \in 1..Len(ledger) :
                ledger[j].tx.import_id = Some(n26_transactions[i].id) /\ ~ledger[j].tx.approved
    /\ \E i \in 1..Len(transactions) : transactions[i].approved

\* The calls that authenticate at the bank or fetch categories or transactions.
FetchCalls ==
    {"ynab.get_categories", "ynab.get_transactions", "n26.new", "n26.get_categories",
     "n26.get_transactions"}

\* C9: when the bank's authentication or a fetch of categories or
\* transactions has failed, it is the last call of the run, the run has
\* failed with its error, no operation has been decided or applied, and the
\* ledger is as it was when the run started.
FetchFailureIsFatal ==
    \A i \in 1..Len(calls) :
        (calls[i].call \in FetchCalls /\ ~calls[i].ok) =>
            /\ i = Len(calls)
            /\ pc = "failed"
            /\ IsSome(error) /\ Unwrap(error).check = calls[i].call
            /\ ops = << >>
            /\ transactions = << >>
            /\ ledger = ledger0

\* The second run has failed to fetch the bank's transactions.
FetchFailureIsFatalWitness ==
    /\ runs = 2 /\ ledger # << >>
    /\ pc = "failed"
    /\ Len(calls) = 6
    /\ calls[6] = [call |-> "n26.get_transactions", ok |-> FALSE]
    /\ ledger = ledger0

\* The order in which main calls the ledger and the bank.
PipelineOrder ==
    <<"ynab.validate_cli", "ynab.get_categories", "ynab.get_transactions", "n26.new",
      "n26.get_categories", "n26.get_transactions", "ynab.sync">>

\* The place of a call in the run, or 0 when it has not been made.
Place(name) ==
    IF \E i \in 1..Len(calls) : calls[i].call = name
    THEN CHOOSE i \in 1..Len(calls) : calls[i].call = name
    ELSE 0

\* C10 as claimed: both category fetches are made before either transaction
\* fetch, and every fetch is made before the conversion and before ynab.sync.
CategoriesBeforeTransactions ==
    /\ \A t \in {"ynab.get_transactions", "n26.get_transactions"} :
          Place(t) # 0 =>
              \A c \in {"ynab.get_categories", "n26.get_categories"} :
                  Place(c) # 0 /\ Place(c) < Place(t)
    /\ Converted =>
          \A f \in {"ynab.get_categories", "n26.get_categories", "ynab.get_transactions",
                    "n26.get_transactions"} : Place(f) # 0 /\ Place(f) <= 6

\* C10 as amended: the calls of a run are made one after the other in the
\* order ledger categories, ledger transactions, bank authentication, bank
\* categories, bank transactions, ynab.sync, each after the one before it has
\* succeeded; so each source's categories are fetched before its
\* transactions, and all four fetches have succeeded before the conversion
\* and before ynab.sync.
SequentialPipeline ==
    /\ Len(calls) <= Len(PipelineOrder)
    /\ \A i \in 1..Len(calls) :
          /\ calls[i].call = PipelineOrder[i]
          /\ i < Len(calls) => calls[i].ok
    /\ (pc = "convert" \/ Converted \/ transactions # << >> \/ ops # << >>) =>
          /\ Len(calls) >= 6
          /\ \A i \in 1..6 : calls[i].ok
    /\ \A s \in {"ynab", "n26"} :
          Place(s \o ".get_transactions") # 0 =>
              /\ Place(s \o ".get_categories") # 0
              /\ Place(s \o ".get_categories") < Place(s \o ".get_transactions")

\* A run has gone through every stage.
SequentialPipelineWitness ==
    /\ pc = "done"
    /\ CallNames = PipelineOrder
    /\ transactions # << >>
    /\ ledger # ledger0

====
